---- MODULE Spec2Model ----
(***************************************************************************)
(* Model of the TLS trust layer of the Tesla Backup Gateway client:        *)
(*   - tega-client/src/lib.rs : PowerwallVerifier (certificate pinning)    *)
(*     and Client::new, which installs it;                                 *)
(*   - tega-bin/src/main.rs   : fetch_certificate, its local               *)
(*     FetchCertificateVerifier and the select! loop racing the request    *)
(*     future against the oneshot receiver.                                *)
(* and of tega-types/src/meters/aggregates.rs : MetersAggregates::sinks    *)
(* and ::sources, under a specification of their own (MetersSpec).         *)
(* The TLS/HTTP transport (rustls, reqwest) is the environment: it decides *)
(* which certificates are presented and whether a response arrives.        *)
(***************************************************************************)
EXTENDS Naturals, Sequences, FiniteSets

(* ------------------------------ bounds -------------------------------- *)
MaxCertLen == 1
MaxTrusted == 1
MaxHandshakes == 2
FloatPayloadBits == 2

(* --------------------------- certificates ----------------------------- *)
\* rustls::Certificate(pub Vec<u8>): an opaque byte string.  Two byte values
\* are enough to tell apart a DER SEQUENCE tag from anything else.
Byte == {0, 48}

SeqsUpTo(S, n) == UNION {[1..k -> S] : k \in 0..n}

Certificate == SeqsUpTo(Byte, MaxCertLen)

\* Vec<u8> equality, as derived PartialEq computes it: same length and the
\* same byte at every index.
CertEq(a, b) ==
    /\ Len(a) = Len(b)
    /\ \A i \in 1..Len(a) : a[i] = b[i]

\* webpki::EndEntityCert::try_from: succeeds on well-formed DER only.
\* Abstraction: the encoding is well formed iff it opens with the SEQUENCE
\* tag 0x30.
Parses(der) == Len(der) >= 1 /\ der[1] = 48

\* EndEntityCert::verify_is_valid_for_dns_name("teg").  Abstraction: the
\* second byte stands for "a subjectAltName covers teg".
ValidForName(der) == Len(der) >= 2 /\ der[2] = 48

(* ------------------------ the other arguments ------------------------- *)
\* <<intermediates, server_name, scts, ocsp_response, now>>: one baseline
\* and, for each argument, a value that differs from the baseline in it.
OtherArgs ==
    { << <<>>,        "teg",   <<>>,  <<>>,  0 >>,
      << <<<<48>>>>,  "teg",   <<>>,  <<>>,  0 >>,
      << <<>>,        "other", <<>>,  <<>>,  0 >>,
      << <<>>,        "teg",   <<0>>, <<>>,  0 >>,
      << <<>>,        "teg",   <<>>,  <<0>>, 0 >>,
      << <<>>,        "teg",   <<>>,  <<>>,  1 >> }

(* ------------------------------ state --------------------------------- *)
VARIABLES
    trusted,    \* PowerwallVerifier.0 : Vec<Certificate> given to Client::new
    pinned,     \* <<>> or <<<<end_entity, result>>>>: the last pinned verification
    pc,         \* fetch_certificate: "start", "select", "done", "panicked"
    slot,       \* Mutex<Option<oneshot::Sender>>: TRUE = Some(tx), FALSE = None
    chan,       \* value held by the oneshot channel: <<>> or <<cert>>
    sent,       \* every certificate ever passed to sender.send, in order
    calls,      \* every FetchCertificateVerifier invocation: <<end_entity, result>>
    conn,       \* transport: "idle", "connecting", "established", "silent", "closed"
    request,    \* what the request future resolves to: "pending", "ok", "err"
    completed,  \* the request future has returned Poll::Ready
    repolled,   \* the request future was polled after it had returned Ready
    sel,        \* last select!: <<request was ready, rx was ready, branch taken>>
    result,     \* fetch_certificate's return: <<"None">>, <<"Ok", cert>>, <<"Err">>
    meters,     \* a MetersAggregates value: the instant_power of each meter; <<>> = none
    sinksOut,   \* what sinks() yielded: <<"NotCalled">>, <<"Panic">>, <<"Items", seq>>
    sourcesOut  \* what sources() yielded: <<"NotCalled">>, <<"Items", seq>>

vars == <<trusted, pinned, pc, slot, chan, sent, calls, conn, request,
          completed, repolled, sel, result, meters, sinksOut, sourcesOut>>

metersVars == <<meters, sinksOut, sourcesOut>>

pinnedVars == <<trusted, pinned>>
fetchVars == <<pc, slot, chan, sent, calls, conn, request, completed,
               repolled, sel, result>>

(* ----------------------- PowerwallVerifier ---------------------------- *)
\* self.0.iter().any(|cert| cert == end_entity)
RECURSIVE Any(_, _, _)
Any(certs, end_entity, i) ==
    IF i > Len(certs) THEN FALSE
    ELSE IF CertEq(certs[i], end_entity) THEN TRUE
    ELSE Any(certs, end_entity, i + 1)

\* Mutant: a chain-style check that also accepts a leaf whose intermediates
\* hold a trusted certificate.
PowerwallVerifier_verify_server_cert_chain(certs, end_entity, intermediates, server_name, scts, ocsp_response, now) ==
    IF \/ Any(certs, end_entity, 1)
       \/ \E k \in 1..Len(intermediates) : Any(certs, intermediates[k], 1)
    THEN "Accepted"
    ELSE "ServerCertificateNotPermitted"

PowerwallVerifier_verify_server_cert(certs, end_entity, intermediates, server_name, scts, ocsp_response, now) ==
    IF Any(certs, end_entity, 1)
    THEN "Accepted"
    ELSE "ServerCertificateNotPermitted"

\* Client::new moves `certificates` into the verifier; nothing writes it later.
Client_new(certificates) == certificates

\* A TLS handshake on a connection of the pinned Client.  main runs on a
\* current_thread runtime and awaits fetch_certificate on its only task, so
\* the Client is used before that call or after it has returned.
PinnedHandshake(end_entity, intermediates, server_name, scts, ocsp, now) ==
    /\ pc \in {"start", "done"}
    /\ pinned' = << <<end_entity,
                     PowerwallVerifier_verify_server_cert(trusted, end_entity,
                         intermediates, server_name, scts, ocsp, now)>> >>
    /\ UNCHANGED trusted
    /\ UNCHANGED fetchVars
    /\ UNCHANGED metersVars

(* --------------------- FetchCertificateVerifier ----------------------- *)
\* The result of verify_server_cert: `?` on the parse, `let _ =` on the
\* name check.
FetchCertificateVerifier_result_nameChecked(end_entity) ==
    \* Mutant: `?` on the name check as well.
    IF ~Parses(end_entity)
    THEN "BadEncoding"
    ELSE IF ValidForName(end_entity) THEN "Accepted" ELSE "NotValidForName"

FetchCertificateVerifier_result(end_entity) ==
    IF ~Parses(end_entity)
    THEN "BadEncoding"
    ELSE LET nameCheck == IF ValidForName(end_entity)
                          THEN "Ok" ELSE "NotValidForName"
         IN  "Accepted"

\* Mutant: the sender is borrowed (as_ref) instead of taken, so every
\* invocation past the parse sends again.
FetchCertificateVerifier_verify_server_cert_noTake(end_entity) ==
    LET r == FetchCertificateVerifier_result(end_entity) IN
    /\ calls' = Append(calls, <<end_entity, r>>)
    /\ IF r = "BadEncoding"
       THEN UNCHANGED <<slot, chan, sent>>
       ELSE /\ UNCHANGED slot
            /\ chan' = <<end_entity>>
            /\ sent' = Append(sent, end_entity)

\* Mutant: the sender is taken and dropped; nothing is sent.
FetchCertificateVerifier_verify_server_cert_noSend(end_entity) ==
    LET r == FetchCertificateVerifier_result(end_entity) IN
    /\ calls' = Append(calls, <<end_entity, r>>)
    /\ IF r = "BadEncoding"
       THEN UNCHANGED <<slot, chan, sent>>
       ELSE /\ slot' = FALSE
            /\ UNCHANGED <<chan, sent>>

\* verify_server_cert as a step: the result is appended to `calls`; past the
\* parse, the sender is taken out of the slot and the certificate sent.
FetchCertificateVerifier_verify_server_cert(end_entity) ==
    LET r == FetchCertificateVerifier_result(end_entity) IN
    /\ calls' = Append(calls, <<end_entity, r>>)
    /\ IF r = "BadEncoding"
       THEN UNCHANGED <<slot, chan, sent>>
       ELSE /\ slot' = FALSE
            /\ IF slot
               THEN /\ chan' = <<end_entity>>
                    /\ sent' = Append(sent, end_entity)
               ELSE UNCHANGED <<chan, sent>>

(* -------------------------- fetch_certificate ------------------------- *)
\* Lines 96-116: the channel, the verifier holding Some(tx), the client and
\* the request future.
FetchStart ==
    /\ pc = "start"
    /\ pc' = "select"
    /\ slot' = TRUE
    /\ conn' = "connecting"
    /\ UNCHANGED <<chan, sent, calls, request, completed, repolled, sel, result>>
    /\ UNCHANGED pinnedVars
    /\ UNCHANGED metersVars

(* ------------------ the transport (rustls + reqwest) ------------------ *)
\* The connection attempt fails before any certificate is presented
\* (connection refused, reset during ClientHello, ...).
ConnectFail ==
    /\ pc = "select" /\ conn = "connecting" /\ request = "pending"
    /\ conn' = "closed"
    /\ request' = "err"
    /\ UNCHANGED <<pc, slot, chan, sent, calls, completed, repolled, sel, result>>
    /\ UNCHANGED pinnedVars
    /\ UNCHANGED metersVars

\* Mutant: one verifier shared by both modes, so that a certificate accepted
\* in discovery joins the pinned set.
Handshake_sharedVerifier(end_entity) ==
    /\ pc = "select" /\ conn = "connecting" /\ request = "pending"
    /\ Len(calls) < MaxHandshakes
    /\ FetchCertificateVerifier_verify_server_cert(end_entity)
    /\ IF calls'[Len(calls')][2] = "Accepted"
       THEN conn' = "established" /\ UNCHANGED request
            /\ trusted' = Append(trusted, end_entity)
       ELSE conn' = "closed" /\ request' = "err" /\ UNCHANGED trusted
    /\ UNCHANGED <<pc, completed, repolled, sel, result>>
    /\ UNCHANGED pinned
    /\ UNCHANGED metersVars

\* The server presents end_entity; rustls calls the installed verifier.  An
\* Err fails the handshake and with it the request; Ok completes it.
Handshake(end_entity) ==
    /\ pc = "select" /\ conn = "connecting" /\ request = "pending"
    /\ Len(calls) < MaxHandshakes
    /\ FetchCertificateVerifier_verify_server_cert(end_entity)
    /\ IF calls'[Len(calls')][2] = "Accepted"
       THEN conn' = "established" /\ UNCHANGED request
       ELSE conn' = "closed" /\ request' = "err"
    /\ UNCHANGED <<pc, completed, repolled, sel, result>>
    /\ UNCHANGED pinnedVars
    /\ UNCHANGED metersVars

\* The application-level response arrives on the established connection.
ResponseOk ==
    /\ pc = "select" /\ conn = "established" /\ request = "pending"
    /\ conn' = "closed"
    /\ request' = "ok"
    /\ UNCHANGED <<pc, slot, chan, sent, calls, completed, repolled, sel, result>>
    /\ UNCHANGED pinnedVars
    /\ UNCHANGED metersVars

\* The exchange fails after the handshake (reset, malformed response, ...).
ResponseErr ==
    /\ pc = "select" /\ conn = "established" /\ request = "pending"
    /\ conn' = "closed"
    /\ request' = "err"
    /\ UNCHANGED <<pc, slot, chan, sent, calls, completed, repolled, sel, result>>
    /\ UNCHANGED pinnedVars
    /\ UNCHANGED metersVars

\* The request moves to a new connection (a followed redirect, a retry): a
\* further handshake runs against the same verifier instance.
Reconnect ==
    /\ pc = "select" /\ conn = "established" /\ request = "pending"
    /\ Len(calls) < MaxHandshakes
    /\ conn' = "connecting"
    /\ UNCHANGED <<pc, slot, chan, sent, calls, request, completed, repolled,
                   sel, result>>
    /\ UNCHANGED pinnedVars
    /\ UNCHANGED metersVars

\* The device stops answering: nothing more ever arrives on this request.
\* No timeout is configured on the reqwest client (lines 108-111), so the
\* request future stays pending.
GoSilent ==
    /\ pc = "select" /\ conn \in {"connecting", "established"}
    /\ request = "pending"
    /\ conn' = "silent"
    /\ UNCHANGED <<pc, slot, chan, sent, calls, request, completed, repolled,
                   sel, result>>
    /\ UNCHANGED pinnedVars
    /\ UNCHANGED metersVars

(* --------------------------- the select! loop ------------------------- *)
\* What polling a future that already returned Ready may do (Future::poll
\* leaves it unspecified): panic, or report Pending.
RepollOutcome == {"panic", "pending"}

\* Is the branch ready when polled?
RequestReady == ~completed /\ request # "pending"
RxReady == chan # <<>>

\* Mutant: any completion of the request ends the wait.
RequestBranch_returns ==
    /\ completed' = TRUE
    /\ sel' = <<RequestReady, RxReady, "request">>
    /\ pc' = "done"
    /\ result' = <<"Err">>
    /\ UNCHANGED <<slot, chan, sent, calls, conn, request, repolled>>

\* Lines 120-124: `response = &mut request => { let _ = response?; ...; continue }`
RequestBranch ==
    /\ completed' = TRUE
    /\ sel' = <<RequestReady, RxReady, "request">>
    /\ IF request = "err"
       THEN pc' = "done" /\ result' = <<"Err">>
       ELSE pc' = "select" /\ UNCHANGED result
    /\ UNCHANGED <<slot, chan, sent, calls, conn, request, repolled>>

\* Lines 125-127: `Ok(certificate) = &mut rx => break certificate`, then
\* line 131 returns it.
CertificateBranch ==
    /\ pc' = "done"
    /\ result' = <<"Ok", chan[1]>>
    /\ chan' = <<>>
    /\ sel' = <<RequestReady, RxReady, "rx">>
    /\ UNCHANGED <<slot, sent, calls, conn, request, completed>>

\* One evaluation of select! that does not return Pending.  Without
\* `biased;` the macro starts polling at a random branch: start = 0 polls
\* the request first, start = 1 the receiver first.  A branch that is
\* Pending hands over to the other one.
Select(start, outcome) ==
    /\ pc = "select"
    /\ IF start = 0
       THEN \/ /\ RequestReady
               /\ RequestBranch
               /\ UNCHANGED repolled
            \/ /\ completed /\ outcome = "panic"
               /\ repolled' = TRUE
               /\ pc' = "panicked"
               /\ UNCHANGED <<slot, chan, sent, calls, conn, request,
                              completed, sel, result>>
            \/ /\ ~RequestReady /\ (completed => outcome = "pending")
               /\ RxReady
               /\ repolled' = (repolled \/ completed)
               /\ CertificateBranch
       ELSE \/ /\ RxReady
               /\ CertificateBranch
               /\ UNCHANGED repolled
            \/ /\ ~RxReady /\ RequestReady
               /\ RequestBranch
               /\ UNCHANGED repolled
            \/ /\ ~RxReady /\ completed /\ outcome = "panic"
               /\ repolled' = TRUE
               /\ pc' = "panicked"
               /\ UNCHANGED <<slot, chan, sent, calls, conn, request,
                              completed, sel, result>>
    /\ UNCHANGED pinnedVars
    /\ UNCHANGED metersVars

Init ==
    /\ trusted \in {Client_new(certs) : certs \in SeqsUpTo(Certificate, MaxTrusted)}
    /\ pinned = <<>>
    /\ pc = "start"
    /\ slot = FALSE
    /\ chan = <<>>
    /\ sent = <<>>
    /\ calls = <<>>
    /\ conn = "idle"
    /\ request = "pending"
    /\ completed = FALSE
    /\ repolled = FALSE
    /\ sel = <<FALSE, FALSE, "none">>
    /\ result = <<"None">>
    /\ meters = <<>>
    /\ sinksOut = <<"NotCalled">>
    /\ sourcesOut = <<"NotCalled">>

Next ==
    \/ \E c \in Certificate, o \in OtherArgs :
          PinnedHandshake(c, o[1], o[2], o[3], o[4], o[5])
    \/ FetchStart
    \/ ConnectFail
    \/ \E c \in Certificate : Handshake(c)
    \/ ResponseOk
    \/ ResponseErr
    \/ Reconnect
    \/ GoSilent
    \/ \E start \in {0, 1}, outcome \in RepollOutcome : Select(start, outcome)

Spec == Init /\ [][Next]_vars

\* The runtime keeps polling the task and the transport keeps delivering
\* what the device sends; a silent device enables no transport step.
Transport ==
    \/ ConnectFail
    \/ \E c \in Certificate : Handshake(c)
    \/ ResponseOk
    \/ ResponseErr

FairSpec ==
    /\ Spec
    /\ WF_vars(\E start \in {0, 1}, outcome \in RepollOutcome : Select(start, outcome))
    /\ WF_vars(FetchStart)
    /\ WF_vars(Transport)

(* ========================= MetersAggregates =========================== *)
\* f64 as its bit pattern, narrowed: one sign bit above FloatPayloadBits bits
\* of exponent and mantissa (zeros, finite values, infinities and NaNs of
\* either sign are all patterns of this shape).
Float == 0..(2 ^ (FloatPayloadBits + 1) - 1)

\* f64::is_sign_negative: the sign bit is set.  f64::is_sign_positive is its
\* negation.
is_sign_negative(x) == (x \div (2 ^ FloatPayloadBits)) % 2 = 1
is_sign_positive(x) == ~is_sign_negative(x)

\* bool::then_some: Some(v) as <<v>>, None as <<>>.
then_some(b, v) == IF b THEN <<v>> ELSE <<>>

\* iter::from_fn over `index`: the Some entries of the array, in index order.
RECURSIVE from_fn(_, _)
from_fn(arr, index) ==
    IF index > Len(arr) THEN <<>>
    ELSE arr[index] \o from_fn(arr, index + 1)

\* Mutant: the battery entry copied from sources(), testing the positive sign.
MetersAggregates_sinks_batteryPositive(m) ==
    IF ~is_sign_positive(m.load)
    THEN <<"Panic">>
    ELSE <<"Items",
           from_fn(<< <<(<<"Load", m.load>>)>>,
                      then_some(is_sign_negative(m.grid), <<"Grid", m.grid>>),
                      then_some(is_sign_positive(m.battery), <<"Battery", m.battery>>),
                      then_some(is_sign_negative(m.solar), <<"Solar", m.solar>>) >>, 1)>>

\* MetersAggregates::sinks, collected: the assertion, the array of Options
\* and the iterator over it.  Each item is <<class, instant_power>>.
MetersAggregates_sinks(m) ==
    IF ~is_sign_positive(m.load)
    THEN <<"Panic">>
    ELSE <<"Items",
           from_fn(<< <<(<<"Load", m.load>>)>>,
                      then_some(is_sign_negative(m.grid), <<"Grid", m.grid>>),
                      then_some(is_sign_negative(m.battery), <<"Battery", m.battery>>),
                      then_some(is_sign_negative(m.solar), <<"Solar", m.solar>>) >>, 1)>>

\* MetersAggregates::sources, collected.
MetersAggregates_sources(m) ==
    <<"Items",
      from_fn(<< then_some(is_sign_positive(m.grid), <<"Grid", m.grid>>),
                 then_some(is_sign_positive(m.battery), <<"Battery", m.battery>>),
                 then_some(is_sign_positive(m.solar), <<"Solar", m.solar>>) >>, 1)>>

\* A deserialized MetersAggregates: any f64 in each instant_power.
MetersInit ==
    /\ meters \in [load : Float, grid : Float, battery : Float, solar : Float]
    /\ sinksOut = <<"NotCalled">>
    /\ sourcesOut = <<"NotCalled">>
    /\ trusted = Client_new(<<>>)
    /\ pinned = <<>>
    /\ pc = "start"
    /\ slot = FALSE
    /\ chan = <<>>
    /\ sent = <<>>
    /\ calls = <<>>
    /\ conn = "idle"
    /\ request = "pending"
    /\ completed = FALSE
    /\ repolled = FALSE
    /\ sel = <<FALSE, FALSE, "none">>
    /\ result = <<"None">>

\* meters.sinks() run to its end (or to its panic).
Sinks ==
    /\ sinksOut' = MetersAggregates_sinks(meters)
    /\ UNCHANGED <<meters, sourcesOut>>
    /\ UNCHANGED pinnedVars
    /\ UNCHANGED fetchVars

\* meters.sources() run to its end.
Sources ==
    /\ sourcesOut' = MetersAggregates_sources(meters)
    /\ UNCHANGED <<meters, sinksOut>>
    /\ UNCHANGED pinnedVars
    /\ UNCHANGED fetchVars

MetersNext ==
    \/ Sinks
    \/ Sources

MetersSpec == MetersInit /\ [][MetersNext]_vars

(* ============================== claims ================================ *)
InSet(certs, c) == \E j \in 1..Len(certs) : certs[j] = c

\* C1: the pinned verifier accepts a presented leaf iff it is byte-equal to
\* a member of the trusted set (never for the empty set); every other leaf
\* gets ServerCertificateNotPermitted, whatever the other arguments were.
C1_PinnedIffMember ==
    pinned # <<>> =>
        /\ pinned[1][2] \in {"Accepted", "ServerCertificateNotPermitted"}
        /\ (pinned[1][2] = "Accepted") <=> InSet(trusted, pinned[1][1])

C1_Witness ==
    /\ pinned # <<>>
    /\ pinned[1][2] = "Accepted"
    /\ trusted # <<>>

RECURSIVE ParsedOf(_)
ParsedOf(cs) ==
    IF cs = <<>> THEN <<>>
    ELSE IF Parses(Head(cs)[1])
         THEN <<Head(cs)[1]>> \o ParsedOf(Tail(cs))
         ELSE ParsedOf(Tail(cs))

FirstOf(s) == IF s = <<>> THEN <<>> ELSE <<Head(s)>>

HandshakeCompleted == \E i \in 1..Len(calls) : calls[i][2] = "Accepted"

\* C4: once a handshake of the discovery request has completed, presenting
\* X, fetch_certificate ends by returning Ok(X) and in no other way.
C4_ReturnsPresented ==
    (pc \in {"done", "panicked"} /\ HandshakeCompleted) =>
        /\ pc = "done"
        /\ result[1] = "Ok"
        /\ \E i \in 1..Len(calls) :
              calls[i][2] = "Accepted" /\ calls[i][1] = result[2]

\* C5: while no handshake reaches the verifier, fetch_certificate does not
\* wait forever: it ends with an error.
C5_NoHandshakeTerminates ==
    (pc = "select" /\ calls = <<>>)
        ~> ((pc = "done" /\ result = <<"Err">>) \/ calls # <<>>)

C7_PrefersCertificate ==
    (sel[1] /\ sel[2]) => sel[3] = "rx"

\* C8: whenever the request has resolved to a response, the verifier has
\* been invoked and a presented certificate has been sent on the channel.
C8_CaptureBeforeResponse ==
    request = "ok" =>
        /\ calls # <<>>
        /\ ~slot
        /\ sent # <<>>
        /\ \E i \in 1..Len(calls) :
              calls[i][1] = sent[1] /\ calls[i][2] = "Accepted"

C8_Witness ==
    /\ request = "ok"
    /\ ~completed
    /\ chan # <<>>

\* C9: no step changes the trusted set of the pinned Client, and a pinned
\* handshake presenting a certificate that discovery captured but the
\* operator did not supply is rejected.
C9_TrustedSetFixed ==
    [][ /\ trusted' = trusted
        /\ (/\ pinned' # <<>>
            /\ sent' # <<>>
            /\ pinned'[1][1] = sent'[1]
            /\ ~InSet(trusted, sent'[1]))
              => pinned'[1][2] = "ServerCertificateNotPermitted" ]_vars

C9_Witness ==
    /\ sent # <<>>
    /\ pinned = << <<sent[1], "ServerCertificateNotPermitted">> >>

\* C10: the request future is never polled again after it has resolved.
C10_NeverRepolled == ~repolled

\* The classes of the items yielded, in the order yielded.
ClassesOf(out) == [i \in 1..Len(out[2]) |-> out[2][i][1]]

Rank(class) ==
    CASE class = "Load" -> 1
      [] class = "Grid" -> 2
      [] class = "Battery" -> 3
      [] class = "Solar" -> 4

Yields(out, class) == \E i \in 1..Len(out[2]) : out[2][i][1] = class

PowerOf(class) ==
    CASE class = "Load" -> meters.load
      [] class = "Grid" -> meters.grid
      [] class = "Battery" -> meters.battery
      [] class = "Solar" -> meters.solar

\* Each item carries its own meter, no class comes twice, and the classes
\* come in the order Load, Grid, Battery, Solar.
InOrder(out) ==
    /\ \A i \in 1..Len(out[2]) : out[2][i][2] = PowerOf(out[2][i][1])
    /\ \A i, j \in 1..Len(out[2]) :
          i < j => Rank(out[2][i][1]) < Rank(out[2][j][1])

\* C11: with a positive sign on load.instant_power, sinks() yields load and
\* the meters of negative sign, sources() yields the meters other than load
\* of positive sign, each in the order Load, Grid, Battery, Solar, so every
\* meter is yielded by exactly one of the two and the counts add up to 4;
\* with a negative sign on load.instant_power sinks() panics.
C11_SinksSourcesPartition ==
    /\ (sinksOut # <<"NotCalled">> /\ is_sign_negative(meters.load))
          => sinksOut = <<"Panic">>
    /\ (sinksOut # <<"NotCalled">> /\ is_sign_positive(meters.load)) =>
          /\ sinksOut[1] = "Items"
          /\ InOrder(sinksOut)
          /\ Yields(sinksOut, "Load")
          /\ \A c \in {"Grid", "Battery", "Solar"} :
                Yields(sinksOut, c) <=> is_sign_negative(PowerOf(c))
    /\ sourcesOut # <<"NotCalled">> =>
          /\ InOrder(sourcesOut)
          /\ ~Yields(sourcesOut, "Load")
          /\ \A c \in {"Grid", "Battery", "Solar"} :
                Yields(sourcesOut, c) <=> is_sign_positive(PowerOf(c))
    /\ (sinksOut[1] = "Items" /\ sourcesOut[1] = "Items") =>
          /\ Len(sinksOut[2]) + Len(sourcesOut[2]) = 4
          /\ \A c \in {"Grid", "Battery", "Solar"} :
                Yields(sinksOut, c) <=> ~Yields(sourcesOut, c)

C11_Witness ==
    /\ sinksOut[1] = "Items"
    /\ sourcesOut[1] = "Items"
    /\ Len(sinksOut[2]) = 2
    /\ Len(sourcesOut[2]) = 2
====
